---- MODULE Spec2Model ----
(***************************************************************************)
(* Model of _tasks/sync-proposal-data.ts: the script that rebuilds         *)
(* _data/stage3.yml from the stage 3 table of the tc39/proposals README.   *)
(*                                                                         *)
(* One run is modelled from the point where the table has been parsed      *)
(* (jsonTbl) up to the single fsp.writeFile.  Every table row owns one     *)
(* async chain (the jsonTbl.map callback); a chain is suspended exactly at *)
(* its awaits.  JavaScript values are tagged records so that undefined,    *)
(* null, "" and a missing own property stay distinct.                      *)
(***************************************************************************)
EXTENDS Integers, Sequences, FiniteSets, TLC

\* Bounds of the model.
NumRows == 2      \* rows of the stage 3 table
MaxFile == 2      \* records in the pre-run stage3.yml
MaxLines == 6     \* lines of a proposal README
MaxListing == 2   \* entries of a repository's top-level file listing

-----------------------------------------------------------------------------
\* JavaScript values.  A string is the sequence of its lines (each line
\* carrying its newline), so "" is Str(<<>>).

Str(lines) == [kind |-> "string", text |-> lines]
Undefined == [kind |-> "undefined", text |-> <<>>]
Null == [kind |-> "null", text |-> <<>>]
\* An own property that the YAML record does not have.
Absent == [kind |-> "absent", text |-> <<>>]

\* hasOwn(value, key) of @openinf/util-object.
hasOwn(value, key) == value[key].kind # "absent"

\* Reading a property: a missing own property reads as undefined.
Get(value, key) == IF hasOwn(value, key) THEN value[key] ELSE Undefined

\* x != null is false for null and for undefined.
NotNullish(v) == v.kind \notin {"undefined", "null"}

\* !x is true for undefined, null and the empty string.
Falsy(v) == v.kind \in {"undefined", "null"} \/ (v.kind = "string" /\ v.text = <<>>)

SeqsUpTo(S, n) == UNION {[1..k -> S] : k \in 0..n}

-----------------------------------------------------------------------------
\* The proposals' identifiers and the URLs the README defines for them.

Ids == {"a", "b"}
NoId == "<none>"

ToLowerCase(s) == CASE s = "A" -> "a" [] s = "B" -> "b" [] OTHER -> s

\* A URL is the list of its path segments as split('/') yields them; a
\* trailing slash yields a last empty segment.
Urls == {<<"tc39", "a">>, <<"tc39", "B", "">>}

\* getPrpslId after getUrlFromDoc found the URL: drop a trailing slash, take
\* the last path segment, lower-case it.
getPrpslId(prpslUrl) ==
  LET url == IF prpslUrl[Len(prpslUrl)] = ""
               THEN SubSeq(prpslUrl, 1, Len(prpslUrl) - 1)
               ELSE prpslUrl
  IN ToLowerCase(url[Len(url)])

-----------------------------------------------------------------------------
\* stage3.yml: a sequence of records.  Only the fields the script reads or
\* writes are kept.

DatasetRecord(id, description, example) ==
  [id |-> id, description |-> description, example |-> example,
   has_specification |-> FALSE, title |-> 0]

RecordHasId(value) == value.id # NoId

\* prpslData.forEach of getCodeSample: the last record with the id decides.
RECURSIVE forEachExample(_, _, _, _)
forEachExample(prpslData, prpslId, i, codeSample) ==
  IF i > Len(prpslData) THEN codeSample
  ELSE forEachExample(prpslData, prpslId, i + 1,
         IF RecordHasId(prpslData[i]) /\ prpslData[i].id = prpslId
           THEN (IF hasOwn(prpslData[i], "example")
                   THEN prpslData[i].example ELSE Undefined)
           ELSE codeSample)

\* prpslData.forEach of getShortDescription.
RECURSIVE forEachDescription(_, _, _, _)
forEachDescription(prpslData, prpslId, i, description) ==
  IF i > Len(prpslData) THEN description
  ELSE forEachDescription(prpslData, prpslId, i + 1,
         IF RecordHasId(prpslData[i]) /\ prpslData[i].id = prpslId
           THEN (IF hasOwn(prpslData[i], "description")
                   THEN prpslData[i].description ELSE Undefined)
           ELSE description)

\* if (codeSample != null) return codeSample;
CodeSampleFound(codeSample) == NotNullish(codeSample)

\* if (!description): the description has to be fetched.
DescriptionMissing_strict(description) == description.kind = "undefined"
DescriptionMissing(description) == Falsy(description)

-----------------------------------------------------------------------------
\* A proposal README: its lines and whether the last line ends in a newline.

\* FENCE stands for the three backquote characters of a Markdown code fence.
FenceJs == "FENCEjs"
Fence == "FENCE"
Lines == {FenceJs, Fence, "x", "y"}

\* Line k is followed by a newline character.
Terminated(readme, k) == k < Len(readme.lines) \/ readme.eofNewline

\* "FENCE[a-z]*\n" matches line i.
OpensAt(readme, i) == readme.lines[i] \in {Fence, FenceJs} /\ Terminated(readme, i)

\* "\nFENCE\n" matches the end of line c - 1 and the whole of line c; the lazy
\* [\s\S]*? before it may be empty, so c is at least i + 2.
ClosesAt(readme, i, c) ==
  c >= i + 2 /\ c <= Len(readme.lines) /\ readme.lines[c] = Fence /\ Terminated(readme, c)

\* codeBlockRegex.exec(contents) passed through toArray: the leftmost match
\* alone (exec returns one match per call), or no element.
codeBlockRegexExec(readme) ==
  LET n == Len(readme.lines)
      starts == {i \in 1..n : OpensAt(readme, i) /\ \E c \in 1..n : ClosesAt(readme, i, c)}
  IN IF starts = {} THEN <<>>
     ELSE LET i == CHOOSE s \in starts : \A t \in starts : s <= t
              c == CHOOSE e \in 1..n : /\ ClosesAt(readme, i, e)
                                       /\ \A f \in 1..n : ClosesAt(readme, i, f) => e <= f
          IN << SubSeq(readme.lines, i, c) >>

\* .replace(/FENCE(.?)*?\n+/gm, ""): every fence, the rest of its line and the
\* newline after it are removed.
RECURSIVE stripFences(_)
stripFences(block) ==
  IF block = <<>> THEN <<>>
  ELSE IF Head(block) \in {Fence, FenceJs} THEN stripFences(Tail(block))
  ELSE <<Head(block)>> \o stripFences(Tail(block))

\* The tail of getCodeSample: codeBlocks.pop() of the exec result, stripped.
extractCodeSample(readme) ==
  LET codeBlocks == codeBlockRegexExec(readme)
  IN IF Len(codeBlocks) > 0 THEN Str(stripFences(codeBlocks[Len(codeBlocks)]))
     ELSE Undefined

-----------------------------------------------------------------------------
\* The repository's top-level file listing.

Paths == {"spec.html", "spec/index.html", "README.md"}

RECURSIVE hasSpecFound_prefix(_)
hasSpecFound_prefix(listing) ==
  IF listing = <<>> THEN FALSE
  ELSE Head(listing) \in {"spec.html", "spec/index.html"} \/ hasSpecFound_prefix(Tail(listing))

\* result.data.forEach of hasSpec.
RECURSIVE hasSpecFound(_)
hasSpecFound(listing) ==
  IF listing = <<>> THEN FALSE
  ELSE Head(listing) = "spec.html" \/ hasSpecFound(Tail(listing))

-----------------------------------------------------------------------------
\* JSON.stringify followed by yaml.dump, as yaml.load reads the result back: a
\* property whose value is undefined is dropped, null is kept.
Stringify(v) == IF v.kind = "undefined" THEN Absent ELSE v

json2yaml(data) ==
  [i \in 1..Len(data) |->
     [id |-> data[i].id,
      description |-> Stringify(data[i].description),
      example |-> Stringify(data[i].example),
      has_specification |-> data[i].has_specification,
      title |-> data[i].title]]

-----------------------------------------------------------------------------
VARIABLES
  jsonTbl,   \* the parsed stage 3 table: per row its title and proposal URL
  remote,    \* GitHub: per repository its README, file listing, description
  file,      \* the content of _data/stage3.yml
  orig,      \* the content of the file when the run began (history)
  readLog,   \* the contents readFileSync has returned (history)
  started,   \* rows whose map callback has been called
  settleOrder, \* the rows in the order their promises settled (history)
  rows,      \* per row: the state of its async chain
  phase,     \* "pending", "aborted", "writing", "done"
  data,      \* the records the then-callback collected
  writes     \* calls of fsp.writeFile that completed

vars == <<jsonTbl, remote, file, orig, readLog, started, settleOrder, rows, phase, data, writes>>

RowIds == 1..Len(jsonTbl)

\* The chain of a row before its callback is called.
NewRow ==
  [pc |-> "init", net |-> "idle",
   prpslRcrd |-> [id |-> NoId, description |-> Undefined, example |-> Undefined,
                  has_specification |-> FALSE, title |-> 0],
   called |-> <<>>, fetches |-> <<>>, resolved |-> {}]

FetchStates == {"fetchDescription", "fetchReadme", "fetchListing"}

\* A thrown error inside the async callback rejects the row's promise.
Rejected(st) == [st EXCEPT !.pc = "rejected", !.net = "idle"]

\* getShortDescription up to its await (or to its return).
getShortDescription(st, prpslData) ==
  LET description == forEachDescription(prpslData, st.prpslRcrd.id, 1, Undefined)
      st1 == [st EXCEPT !.called = Append(@, "getShortDescription")]
  IN IF DescriptionMissing(description)
       THEN [st1 EXCEPT !.pc = "fetchDescription", !.net = "inflight",
                        !.fetches = Append(@, "getShortDescription")]
       ELSE [st1 EXCEPT !.pc = "awaitDescription",
                        !.prpslRcrd.description = description,
                        !.resolved = @ \cup {"description"}]

\* getCodeSample up to its await (or to its early return).
getCodeSample(st, prpslData) ==
  LET codeSample == forEachExample(prpslData, st.prpslRcrd.id, 1, Null)
      st1 == [st EXCEPT !.called = Append(@, "getCodeSample")]
  IN IF CodeSampleFound(codeSample)
       THEN [st1 EXCEPT !.pc = "awaitExample",
                        !.prpslRcrd.example = codeSample,
                        !.resolved = @ \cup {"example"}]
       ELSE [st1 EXCEPT !.pc = "fetchReadme", !.net = "inflight",
                        !.fetches = Append(@, "getCodeSample")]

\* hasSpec up to its await: the listing is always fetched.
hasSpec(st) ==
  [st EXCEPT !.pc = "fetchListing", !.net = "inflight",
             !.called = Append(@, "hasSpec"),
             !.fetches = Append(@, "hasSpec")]

\* The resolver continues after its fetch fulfilled and returns.
afterFetch(st, repo) ==
  CASE st.pc = "fetchDescription" ->
         [st EXCEPT !.pc = "awaitDescription", !.net = "idle",
                    !.prpslRcrd.description = repo.description,
                    !.resolved = @ \cup {"description"}]
    [] st.pc = "fetchReadme" ->
         [st EXCEPT !.pc = "awaitExample", !.net = "idle",
                    !.prpslRcrd.example = extractCodeSample(repo.readme),
                    !.resolved = @ \cup {"example"}]
    [] st.pc = "fetchListing" ->
         [st EXCEPT !.pc = "awaitHasSpec", !.net = "idle",
                    !.prpslRcrd.has_specification = hasSpecFound(repo.listing),
                    !.resolved = @ \cup {"has_specification"}]

\* The state of a row's promise.
PromiseState_noAwait(st) ==
  CASE st.pc = "rejected" -> "rejected"
    [] st.pc \in {"awaitDescription", "fetchReadme", "awaitExample", "fetchListing",
                  "awaitHasSpec", "awaitTitle", "fulfilled"} -> "fulfilled"
    [] OTHER -> "pending"

PromiseState(st) ==
  CASE st.pc = "fulfilled" -> "fulfilled"
    [] st.pc = "rejected" -> "rejected"
    [] OTHER -> "pending"

\* Promise.allSettled resolves once no promise of the array is pending.
allSettled_shortCircuit(rws) ==
  \/ \A r \in DOMAIN rws : PromiseState(rws[r]) = "fulfilled"
  \/ \E r \in DOMAIN rws : PromiseState(rws[r]) = "rejected"

allSettled(rws) == \A r \in DOMAIN rws : PromiseState(rws[r]) # "pending"

\* The results array: positional, one entry per row.
Results_byCompletion(rws) ==
  [i \in 1..Len(settleOrder) |->
     [status |-> PromiseState(rws[settleOrder[i]]), value |-> rws[settleOrder[i]].prpslRcrd]]

Results(rws) ==
  [r \in DOMAIN rws |-> [status |-> PromiseState(rws[r]), value |-> rws[r].prpslRcrd]]

\* results.forEach: an entry that is not fulfilled throws.
ThenThrows_skip(results) == FALSE
ThenThrows(results) == \E i \in DOMAIN results : results[i].status # "fulfilled"

\* results.forEach: data.push(result.value) in the order of the array.
RECURSIVE CollectData_reversed(_)
CollectData_reversed(results) ==
  IF results = <<>> THEN <<>>
  ELSE CollectData_reversed(Tail(results)) \o
         (IF Head(results).status = "fulfilled" THEN <<Head(results).value>> ELSE <<>>)

RECURSIVE CollectData(_)
CollectData(results) ==
  IF results = <<>> THEN <<>>
  ELSE (IF Head(results).status = "fulfilled" THEN <<Head(results).value>> ELSE <<>>)
         \o CollectData(Tail(results))

\* A remote call that has not hung can settle; nothing times a call out.
CanSettle_timeout(st) == st.net \in {"inflight", "hung"}
CanSettle(st) == st.net = "inflight"

\* The synchronous jsonTbl.map has returned: only then can a continuation or
\* a fetch completion run (run to completion of the module body).
MainDone_eager == started >= 1
MainDone == started = Len(jsonTbl)

-----------------------------------------------------------------------------
\* Actions.

\* The promise of row r settles in this step.
Settles(r) == rows[r].pc \notin {"fulfilled", "rejected"} /\ rows'[r].pc \in {"fulfilled", "rejected"}

RecordSettle(r) == settleOrder' = IF Settles(r) THEN Append(settleOrder, r) ELSE settleOrder

\* jsonTbl.map calls the callback of the next row, which runs up to its first
\* await: getPrpslId, then getShortDescription.  found: getUrlFromDoc finds
\* the link reference definition (it throws otherwise).
StartRow(r) ==
  /\ r \in RowIds
  /\ r = started + 1
  /\ started' = r
  /\ \E found \in BOOLEAN :
       IF found
         THEN /\ rows' = [rows EXCEPT ![r] = getShortDescription(
                    [@ EXCEPT !.prpslRcrd.id = getPrpslId(jsonTbl[r].url)], file)]
              /\ readLog' = readLog \cup {file}
         ELSE /\ rows' = [rows EXCEPT ![r] = Rejected(@)]
              /\ readLog' = readLog
  /\ RecordSettle(r)
  /\ UNCHANGED <<jsonTbl, remote, file, orig, phase, data, writes>>

\* A remote call of row r fulfils.
FetchFulfil(r) ==
  /\ r \in RowIds
  /\ MainDone
  /\ rows[r].pc \in FetchStates
  /\ CanSettle(rows[r])
  /\ rows' = [rows EXCEPT ![r] = afterFetch(@, remote[@.prpslRcrd.id])]
  /\ UNCHANGED <<jsonTbl, remote, file, orig, readLog, started, settleOrder, phase, data, writes>>

\* A remote call of row r rejects: the rejection propagates through the awaits.
FetchReject(r) ==
  /\ r \in RowIds
  /\ MainDone
  /\ rows[r].pc \in FetchStates
  /\ CanSettle(rows[r])
  /\ rows' = [rows EXCEPT ![r] = Rejected(@)]
  /\ RecordSettle(r)
  /\ UNCHANGED <<jsonTbl, remote, file, orig, readLog, started, phase, data, writes>>

\* A remote call of row r hangs: it will never settle.
FetchHang(r) ==
  /\ r \in RowIds
  /\ rows[r].pc \in FetchStates
  /\ rows[r].net = "inflight"
  /\ rows' = [rows EXCEPT ![r].net = "hung"]
  /\ UNCHANGED <<jsonTbl, remote, file, orig, readLog, started, settleOrder, phase, data, writes>>

\* The callback of row r resumes after an await and runs to the next one.
Resume(r) ==
  /\ r \in RowIds
  /\ MainDone
  /\ \/ /\ rows[r].pc = "awaitDescription"
        /\ rows' = [rows EXCEPT ![r] = getCodeSample(@, file)]
        /\ readLog' = readLog \cup {file}
     \/ /\ rows[r].pc = "awaitExample"
        /\ rows' = [rows EXCEPT ![r] = hasSpec(@)]
        /\ readLog' = readLog
     \/ /\ rows[r].pc = "awaitHasSpec"      \* presenceObjFrom, then mdCodeSpans2html
        /\ \E found \in BOOLEAN :
             rows' = [rows EXCEPT ![r] =
                        IF found THEN [@ EXCEPT !.pc = "awaitTitle",
                                                !.prpslRcrd.title = jsonTbl[r].title]
                        ELSE Rejected(@)]
        /\ readLog' = readLog
     \/ /\ rows[r].pc = "awaitTitle"        \* tests, then return prpslRcrd
        /\ \E found \in BOOLEAN :
             rows' = [rows EXCEPT ![r] =
                        IF found THEN [@ EXCEPT !.pc = "fulfilled"] ELSE Rejected(@)]
        /\ readLog' = readLog
  /\ RecordSettle(r)
  /\ UNCHANGED <<jsonTbl, remote, file, orig, started, phase, data, writes>>

\* The callback given to Promise.allSettled(...).then, up to its await.
Then ==
  /\ phase = "pending"
  /\ MainDone
  /\ allSettled(rows)
  /\ IF ThenThrows(Results(rows))
       THEN phase' = "aborted" /\ data' = data
       ELSE phase' = "writing" /\ data' = CollectData(Results(rows))
  /\ UNCHANGED <<jsonTbl, remote, file, orig, readLog, started, settleOrder, rows, writes>>

\* fsp.writeFile completes.
WriteFile ==
  /\ phase = "writing"
  /\ file' = json2yaml(data)
  /\ writes' = writes + 1
  /\ phase' = "done"
  /\ UNCHANGED <<jsonTbl, remote, orig, readLog, started, settleOrder, rows, data>>

Next ==
  \/ \E r \in 1..Len(jsonTbl) : StartRow(r)
  \/ \E r \in 1..Len(jsonTbl) : FetchFulfil(r)
  \/ \E r \in 1..Len(jsonTbl) : FetchReject(r)
  \/ \E r \in 1..Len(jsonTbl) : FetchHang(r)
  \/ \E r \in 1..Len(jsonTbl) : Resume(r)
  \/ Then
  \/ WriteFile

-----------------------------------------------------------------------------
\* Initial states.

Repo(readme, listing, description) ==
  [readme |-> readme, listing |-> listing, description |-> description]

TwoBlocks == [lines |-> <<FenceJs, "x", Fence, FenceJs, "y", Fence>>, eofNewline |-> TRUE]

RunRemote ==
  [id \in Ids |->
     IF id = "a" THEN Repo(TwoBlocks, <<"README.md", "spec.html">>, Str(<<"gh">>))
     ELSE Repo([lines |-> <<"x">>, eofNewline |-> TRUE], <<"spec/index.html">>, Null)]

RunDatasets == {<<>>, <<DatasetRecord("a", Str(<<"d">>), Str(<<"x">>))>>}

Tables ==
  {[r \in 1..n |-> [title |-> r, url |-> u[r]]] : <<n, u>> \in
     UNION {{<<m, v>> : v \in [1..m -> Urls]} : m \in 0..NumRows}}

StoredValues(s) == {Absent, Null, Str(<<>>), Str(<<s>>)}

DatasetRecords ==
  {DatasetRecord(id, d, Str(<<"x">>)) : <<id, d>> \in (Ids \cup {NoId}) \X StoredValues("d")}
  \cup
  {DatasetRecord(id, Str(<<"d">>), e) : <<id, e>> \in (Ids \cup {NoId}) \X StoredValues("x")}

Datasets == SeqsUpTo(DatasetRecords, MaxFile)
Readmes == [lines : SeqsUpTo(Lines, MaxLines), eofNewline : BOOLEAN]
Listings == SeqsUpTo(Paths, MaxListing)

InitWith(tbl, f, rem) ==
  /\ jsonTbl = tbl
  /\ remote = rem
  /\ file = f
  /\ orig = f
  /\ readLog = {}
  /\ started = 0
  /\ settleOrder = <<>>
  /\ rows = [r \in 1..Len(tbl) |-> NewRow]
  /\ phase = "pending"
  /\ data = <<>>
  /\ writes = 0

\* A run over a table of up to NumRows rows.
Init == \E tbl \in Tables, f \in RunDatasets : InitWith(tbl, f, RunRemote)

OneRowTables == {<<[title |-> 1, url |-> u]>> : u \in Urls}

\* A one-row run over every dataset and every file listing.
InitResolve ==
  \E tbl \in OneRowTables :
    \/ \E f \in Datasets : InitWith(tbl, f, RunRemote)
    \/ \E l \in Listings :
         InitWith(tbl, <<>>, [id \in Ids |-> Repo(TwoBlocks, l, Str(<<"gh">>))])

\* A one-row run over every README.
InitReadme ==
  \E m \in Readmes :
    InitWith(<<[title |-> 1, url |-> <<"tc39", "a">>]>>, <<>>,
             [id \in Ids |-> Repo(m, <<"spec.html">>, Str(<<"gh">>))])

Spec == Init /\ [][Next]_vars
SpecResolve == InitResolve /\ [][Next]_vars
SpecReadme == InitReadme /\ [][Next]_vars

\* A step of the run itself: everything but the decision of a remote call to
\* hang.
Progress ==
  \/ \E r \in 1..Len(jsonTbl) : StartRow(r) \/ FetchFulfil(r) \/ FetchReject(r) \/ Resume(r)
  \/ Then
  \/ WriteFile

\* The event loop runs a ready continuation while there is one, and a remote
\* call that does not hang settles.
Fairness == WF_vars(Progress)

\* A run over the tables whose rows name the two repositories in turn.
AlternatingTables ==
  {[r \in 1..n |-> [title |-> r,
                    url |-> IF r % 2 = 1 THEN <<"tc39", "B", "">> ELSE <<"tc39", "a">>]] :
     n \in 0..NumRows}

InitFair == \E tbl \in AlternatingTables, f \in RunDatasets : InitWith(tbl, f, RunRemote)

FairSpec == InitFair /\ [][Next]_vars /\ Fairness

-----------------------------------------------------------------------------
\* Properties.

InSeq(x, q) == \E i \in DOMAIN q : q[i] = x
Count(x, q) == Cardinality({i \in DOMAIN q : q[i] = x})
IsRejected(r) == rows[r].pc = "rejected"
IsFulfilled(r) == rows[r].pc = "fulfilled"
IsPending(r) == rows[r].pc \notin {"fulfilled", "rejected"}
Hung(r) == rows[r].net = "hung"
Terminal == phase \in {"aborted", "done"}
AllResolvers == {"description", "example", "has_specification"}

\* C1: if the chain of at least one row rejects, the dataset file is never
\* written in the run and keeps its pre-run content; no subset of the rows is
\* persisted.
C1_NoPartialWrite ==
  (\E r \in RowIds : IsRejected(r)) =>
     /\ writes = 0
     /\ file = orig
     /\ phase \in {"pending", "aborted"}
     /\ data = <<>>

\* A run aborted by a rejected remote call while another row had fulfilled.
C1_Witness ==
  /\ phase = "aborted"
  /\ file = orig
  /\ \E r, q \in RowIds :
       /\ IsRejected(r) /\ rows[r].fetches # <<>>
       /\ IsFulfilled(q)

\* C2: the file is written at most once, as the last step of the run, and only
\* after every row has fulfilled; no write happens while a resolver is pending
\* or still has to read the file, so every read sees the pre-run content.
C2_SingleTerminalWrite ==
  /\ writes <= 1
  /\ (writes = 0 => file = orig)
  /\ (phase \in {"writing", "done"} =>
        \A r \in RowIds : IsFulfilled(r) /\ rows[r].net = "idle")
  /\ (writes = 1 => phase = "done" /\ ~ENABLED Next)
  /\ readLog \subseteq {orig}

\* The file has been rewritten after both resolvers of every row read it.
C2_Witness ==
  /\ writes = 1
  /\ file # orig
  /\ readLog = {orig}
  /\ Len(jsonTbl) >= 2
  /\ \A r \in RowIds : Count("getShortDescription", rows[r].called) = 1
                       /\ Count("getCodeSample", rows[r].called) = 1

\* C3: when every row fulfils, the written sequence has one record per table
\* row and its i-th record is the one built from the i-th row, whatever the
\* order in which the rows completed.
C3_RowOrder ==
  phase = "done" =>
     /\ Len(file) = Len(jsonTbl)
     /\ \A i \in RowIds :
          /\ file[i].title = jsonTbl[i].title
          /\ file[i].id = getPrpslId(jsonTbl[i].url)

\* The second row completed before the first one and is written second.
C3_Witness ==
  /\ phase = "done"
  /\ Len(settleOrder) >= 2
  /\ settleOrder[1] = 2
  /\ settleOrder[2] = 1
  /\ file[1].id # file[2].id

\* C6: hasSpec returns true exactly when the fetched top-level listing has an
\* entry whose path is "spec.html"; it fetches the listing once and nothing
\* below it.
C6_SpecHtmlExactly ==
  \A r \in RowIds :
    /\ Count("hasSpec", rows[r].fetches) <= 1
    /\ "has_specification" \in rows[r].resolved =>
         LET listing == remote[rows[r].prpslRcrd.id].listing
         IN /\ rows[r].prpslRcrd.has_specification
                 = (\E i \in DOMAIN listing : listing[i] = "spec.html")
            /\ Count("hasSpec", rows[r].fetches) = 1

\* A listing with spec/index.html and without spec.html resolved to false.
C6_Witness ==
  \E r \in RowIds :
    LET listing == remote[rows[r].prpslRcrd.id].listing
    IN /\ "has_specification" \in rows[r].resolved
       /\ InSeq("spec/index.html", listing)
       /\ ~InSeq("spec.html", listing)
       /\ rows[r].prpslRcrd.has_specification = FALSE

\* The records of the pre-run dataset whose id is the id of row r.
Matching(r) == {i \in DOMAIN orig : orig[i].id = rows[r].prpslRcrd.id}
LastMatching(r) == CHOOSE i \in Matching(r) : \A j \in Matching(r) : j <= i

\* C4: when the dataset has a record with the id, getCodeSample returns that
\* record's stored example and issues no remote fetch, both when the record
\* has an example string and when it has no example (returned as absent).
C4_LocalExampleWins ==
  \A r \in RowIds :
    (/\ InSeq("getCodeSample", rows[r].called)
     /\ Matching(r) # {}
     /\ \A i \in Matching(r) : orig[i].example.kind \in {"string", "absent"}) =>
       /\ ~InSeq("getCodeSample", rows[r].fetches)
       /\ \E i \in Matching(r) : rows[r].prpslRcrd.example = Get(orig[i], "example")

\* The fenced code blocks of a README read as Markdown: a fence line opens a
\* block, the next bare fence closes it.
RECURSIVE FencedBlocks(_, _, _)
FencedBlocks(lines, inside, cur) ==
  IF lines = <<>> THEN (IF inside THEN <<cur>> ELSE <<>>)
  ELSE IF ~inside
    THEN FencedBlocks(Tail(lines), Head(lines) \in {Fence, FenceJs}, <<>>)
    ELSE IF Head(lines) = Fence
      THEN <<cur>> \o FencedBlocks(Tail(lines), FALSE, <<>>)
      ELSE FencedBlocks(Tail(lines), TRUE, Append(cur, Head(lines)))

\* Every block of the README is closed, has content and no fence inside, and
\* the README ends in a newline.
RECURSIVE Balanced(_, _)
Balanced(lines, inside) ==
  IF lines = <<>> THEN ~inside
  ELSE IF ~inside THEN Balanced(Tail(lines), Head(lines) \in {Fence, FenceJs})
  ELSE IF Head(lines) = Fence THEN Balanced(Tail(lines), FALSE)
  ELSE Head(lines) # FenceJs /\ Balanced(Tail(lines), TRUE)

WellFormed(readme) ==
  /\ readme.eofNewline
  /\ Balanced(readme.lines, FALSE)
  /\ \A k \in DOMAIN FencedBlocks(readme.lines, FALSE, <<>>) :
       FencedBlocks(readme.lines, FALSE, <<>>)[k] # <<>>

\* C5: after the fallback to the remote README, getCodeSample returns the
\* content of the last fenced code block of the README, and undefined when the
\* README has no fenced code block.
C5_LastCodeBlock ==
  \A r \in RowIds :
    (InSeq("getCodeSample", rows[r].fetches) /\ "example" \in rows[r].resolved) =>
       LET readme == remote[rows[r].prpslRcrd.id].readme
           blocks == FencedBlocks(readme.lines, FALSE, <<>>)
       IN /\ (WellFormed(readme) /\ blocks # <<>>) =>
                rows[r].prpslRcrd.example = Str(blocks[Len(blocks)])
          /\ (\A k \in DOMAIN readme.lines : readme.lines[k] \notin {Fence, FenceJs}) =>
                rows[r].prpslRcrd.example = Undefined

\* C9 as stated: getShortDescription fetches exactly when no record has the id
\* or the matching record has no description field; a stored description,
\* the empty one included, is returned without a fetch.
C9_FetchOnlyWithoutField ==
  \A r \in RowIds :
    InSeq("getShortDescription", rows[r].called) =>
       LET fetched == InSeq("getShortDescription", rows[r].fetches)
       IN /\ fetched <=> (Matching(r) = {} \/ ~hasOwn(orig[LastMatching(r)], "description"))
          /\ (~fetched /\ "description" \in rows[r].resolved) =>
                rows[r].prpslRcrd.description = orig[LastMatching(r)].description

\* C9 amended: getShortDescription fetches exactly when no record has the id,
\* or the last record with the id has no description field or a description
\* that is null or the empty string; otherwise it returns the stored
\* description unchanged without a fetch.
C9_FetchWhenFalsy ==
  \A r \in RowIds :
    InSeq("getShortDescription", rows[r].called) =>
       LET fetched == InSeq("getShortDescription", rows[r].fetches)
       IN /\ fetched <=>
               \/ Matching(r) = {}
               \/ orig[LastMatching(r)].description \in {Absent, Null, Str(<<>>)}
          /\ (~fetched /\ "description" \in rows[r].resolved) =>
                rows[r].prpslRcrd.description = orig[LastMatching(r)].description

\* A stored empty description was fetched again.
C9_Witness ==
  \E r \in RowIds :
    /\ Matching(r) # {}
    /\ orig[LastMatching(r)].description = Str(<<>>)
    /\ InSeq("getShortDescription", rows[r].fetches)
    /\ "description" \in rows[r].resolved

\* A remote call of row r has settled.
FetchCompleted(r) ==
  \/ Len(rows[r].fetches) > 1
  \/ Len(rows[r].fetches) = 1 /\ rows[r].net = "idle"

\* C7: the run aborts or writes only after the promise of every row has
\* settled, and the rejection of one row leaves every other row's chain as it
\* was, still able to take its next step.
C7_DecideAfterAllSettle ==
  /\ [](phase # "pending" => \A r \in RowIds : ~IsPending(r))
  /\ [](\A r \in RowIds :
          ((\E q \in RowIds : IsRejected(q)) /\ MainDone /\ IsPending(r) /\ ~Hung(r)) =>
             ENABLED (FetchFulfil(r) \/ Resume(r)))
  /\ [][\A q \in RowIds : (~IsRejected(q) /\ rows'[q].pc = "rejected") =>
          /\ phase' = "pending"
          /\ \A r \in RowIds \ {q} : rows'[r] = rows[r]]_vars

\* The first row rejected before any fetch; the second row still made all
\* three remote calls and fulfilled before the run aborted.
C7_Witness ==
  /\ phase = "aborted"
  /\ Len(jsonTbl) >= 2
  /\ IsRejected(1) /\ rows[1].fetches = <<>>
  /\ IsFulfilled(2) /\ Len(rows[2].fetches) = 3

\* C8 as stated: the resolvers of a row run concurrently, so a row that waits
\* for any remote call has already issued the listing fetch of hasSpec; the
\* record is built after all three resolved, and every row is started before
\* a remote call completes.
C8_ConcurrentResolvers ==
  /\ \A r \in RowIds :
       /\ rows[r].pc \in FetchStates => InSeq("hasSpec", rows[r].fetches)
       /\ IsFulfilled(r) => rows[r].resolved = AllResolvers
  /\ (\E r \in RowIds : FetchCompleted(r)) => started = Len(jsonTbl)

\* C8 amended: within a row the resolvers run one after the other
\* (description, code sample, specification presence), each called only after
\* the one before it returned; the record is built after all three resolved;
\* every row is started before a remote call of any row completes.
C8_SequentialResolvers ==
  /\ \A r \in RowIds :
       /\ InSeq("getCodeSample", rows[r].called) => "description" \in rows[r].resolved
       /\ InSeq("hasSpec", rows[r].called) => {"description", "example"} \subseteq rows[r].resolved
       /\ rows[r].pc \in FetchStates =>
            rows[r].fetches[Len(rows[r].fetches)] = rows[r].called[Len(rows[r].called)]
       /\ IsFulfilled(r) => rows[r].resolved = AllResolvers
  /\ (\E r \in RowIds : FetchCompleted(r)) => started = Len(jsonTbl)

\* Two rows have a remote call in flight at once, one of them for its README
\* after its description fetch completed.
C8_Witness ==
  \E r, q \in RowIds :
    /\ r # q
    /\ rows[r].pc = "fetchReadme" /\ rows[r].fetches = <<"getShortDescription", "getCodeSample">>
    /\ rows[q].pc = "fetchDescription"
    /\ rows[r].net = "inflight" /\ rows[q].net = "inflight"

\* C10: no remote call is retried or timed out.  When every remote call
\* settles the run reaches one terminal outcome, the single write or the abort
\* without a write, and stays there; while a remote call hangs the run neither
\* writes nor aborts.
C10_NoRetryNoTimeout ==
  /\ [](\A r \in RowIds : \A f \in {"getShortDescription", "getCodeSample", "hasSpec"} :
          Count(f, rows[r].fetches) <= 1)
  /\ [][\A r \in RowIds : Hung(r) => (rows'[r] = rows[r])]_vars
  /\ []((\E r \in RowIds : Hung(r)) => (phase = "pending" /\ writes = 0))
  /\ [](phase = "aborted" => writes = 0)
  /\ [](phase = "done" => writes = 1)
  /\ [][Terminal => UNCHANGED vars]_vars
  /\ <>(Terminal \/ \E r \in RowIds : Hung(r))

\* A remote call hangs while another row has already rejected: the run is
\* still pending.
C10_Witness ==
  \E r, q \in RowIds :
    /\ Hung(r)
    /\ IsRejected(q)
    /\ MainDone
    /\ phase = "pending"

====
